---- MODULE Spec2Model ----
(***************************************************************************)
(* The "interpolate" binding of tools/bindings/interpolate/src/module.cpp: *)
(* argument validation, allocation of the output buffer, selection of the  *)
(* worker count, dispatch of the 1-D/2-D/3-D kernels (directly or through  *)
(* std::async), the generic N-D path, and the packaging of the buffer in   *)
(* a numpy array whose capsule releases it.                                *)
(*                                                                         *)
(* The output buffer is followed on the indices of Probes(n): the chunk    *)
(* boundaries of every possible worker count, their neighbours, and the    *)
(* tail of the buffer.  A kernel writes a contiguous slice, so an index    *)
(* between two probes is written exactly when the probes around it are.    *)
(***************************************************************************)
EXTENDS Integers, Sequences, FiniteSets, TLC

\* ------------------------------------------------------------------ bounds
MaxExtra == 1
MaxDims == 4
AxisLen == 2

\* ------------------------------------------------------- program constants
Tier1 == 10000
Tier2 == 4000000
Tier3 == 160000000
SizeofDouble == 8

Uninit == -1
NoSlice == -1
NoBad == -1
NoError == [kind |-> "", message |-> ""]

Min(a, b) == IF a < b THEN a ELSE b

RECURSIVE Pow(_, _)
Pow(b, e) == IF e = 0 THEN 1 ELSE b * Pow(b, e - 1)

\* ------------------------------------------------------------------ inputs
SmallElements == 0..MaxExtra

NumElementsChoices ==
    SmallElements \cup
    { t + e : t \in {Tier1, Tier2, Tier3}, e \in (-1)..MaxExtra }

MaxThreadsChoices == {0, 1, 2, 3, 4, 8}

\* points: the list of axes, each given by its ndim; at most one axis is
\* not one-dimensional
PointsChoices ==
    { [k \in 1..n |-> IF k = b THEN nd ELSE 1] :
        n \in 0..MaxDims, b \in 0..MaxDims, nd \in {0, 2} }

\* interp_points.shape(): () | (N) | (N, cols) | (N, cols, 1)
SmallShapeChoices ==
    {<<>>} \cup
    { <<n>> : n \in SmallElements } \cup
    { <<n, c>> : n \in SmallElements, c \in 0..(MaxDims + 1) } \cup
    { <<n, c, 1>> : n \in SmallElements, c \in 0..(MaxDims + 1) }

\* the query point that is out of contract (the kernel fails on it), if any
BadPointChoices(n) == {NoBad} \cup { b \in {0, n - 1} : 0 <= b /\ b < n }

\* arguments of any shape, with small batches
AnyArgs ==
    [ points : PointsChoices,
      values_ndim : 0..(MaxDims + 1),
      interp_shape : SmallShapeChoices,
      max_threads : MaxThreadsChoices,
      bad_point : {NoBad} ]

\* arguments that pass validation, with batches of every size tier
WellFormedArgs(sizes) ==
    UNION { [ points : { [k \in 1..d |-> 1] },
              values_ndim : {d},
              interp_shape : { <<n, d>> },
              max_threads : MaxThreadsChoices,
              bad_point : BadPointChoices(n) ] :
            d \in 1..MaxDims, n \in sizes }

ArgsChoices == AnyArgs \cup WellFormedArgs(NumElementsChoices)

\* values.request().size: the element count of a tensor with AxisLen
\* samples along each of its dimensions
ValuesSize(a) == Pow(AxisLen, a.values_ndim)

LaunchPolicies == {"async", "deferred"}

VARIABLES
    args,          \* the arguments of the call
    pc,            \* position of the calling thread
    error,         \* the exception the call ended with, NoError when none
    num_dims, num_elements, num_threads, stride,   \* locals of the lambda
    buf,           \* the new[]-allocated buffer: none | raw | owned | freed
    frees,         \* number of delete[] executed on the buffer
    out,           \* contents of the buffer on Probes(num_elements)
    tasks,         \* std::vector<std::future<void>> tasks, with each
                   \* task's slice and the state of its shared state
    invoked,       \* the kernel invocations made so far
    prev           \* what the caller kept of the previous call

vars == <<args, pc, error, num_dims, num_elements, num_threads, stride,
          buf, frees, out, tasks, invoked, prev>>

\* ------------------------------------------------------------ the buffer
Probes(n) ==
    { p \in UNION { { k * (n \div w) + d : k \in 0..w, d \in (-1)..1 } :
                      w \in {1, 2, 3, 4, 8} }
             \cup ((n - 8)..(n - 1)) :
        p >= 0 /\ p < n }

\* One kernel run over a slice: element j of the output slice is computed
\* from the query point that starts at flat offset q_off + j * dims.
KernelWrite(o, out_off, q_off, len, dims) ==
    [ p \in DOMAIN o |->
        IF out_off <= p /\ p < out_off + len
        THEN q_off + (p - out_off) * dims
        ELSE o[p] ]

\* The number of elements a kernel run completes: all len of them, or those
\* before the first one whose query coordinates overlap the bad point.
KernelCompleted(q_off, len, dims, bad) ==
    IF bad = NoBad \/ bad * dims + dims - 1 < q_off
    THEN len
    ELSE LET j == IF bad * dims <= q_off THEN 0
                  ELSE (bad * dims - q_off) \div dims
         IN  IF j < len THEN j ELSE len

\* KernelName with the 3-D branch calling the 2-D kernel
KernelNameCopied(d) ==
    CASE d = 1 -> "interpolate_1d"
      [] d = 2 -> "interpolate_2d"
      [] d = 3 -> "interpolate_2d"
      [] OTHER -> "interpolate"

KernelName(d) ==
    CASE d = 1 -> "interpolate_1d"
      [] d = 2 -> "interpolate_2d"
      [] d = 3 -> "interpolate_3d"
      [] OTHER -> "interpolate"

Invocation(kernel, worker, out_off, q_off, len, values_len, query_len) ==
    [ kernel |-> kernel, worker |-> worker, out_off |-> out_off,
      q_off |-> q_off, len |-> len,
      values_len |-> values_len, query_len |-> query_len ]

\* ------------------------------------------------------------- validation
\* ValidationError without the check of the column count of interp_points
ValidationErrorNoColumns(a) ==
    LET nd == Len(a.points)
        ind == Len(a.interp_shape)
    IN  IF a.values_ndim = 0 \/ ind = 0 THEN "scalar"
        ELSE IF \E k \in 1..nd : a.points[k] # 1 THEN "points_not_1d"
        ELSE IF nd # a.values_ndim THEN "values_mismatch"
        ELSE IF ind # 2 THEN "interp_not_2d"
        ELSE ""

\* ValidationError without the check of the rank of values
ValidationErrorNoRank(a) ==
    LET nd == Len(a.points)
        ind == Len(a.interp_shape)
    IN  IF a.values_ndim = 0 \/ ind = 0 THEN "scalar"
        ELSE IF \E k \in 1..nd : a.points[k] # 1 THEN "points_not_1d"
        ELSE IF ind # 2 THEN "interp_not_2d"
        ELSE IF nd # a.interp_shape[2] THEN "interp_mismatch"
        ELSE ""

\* The first failing check of lines 26-53, "" when all pass.
ValidationError(a) ==
    LET nd == Len(a.points)
        ind == Len(a.interp_shape)
    IN  IF a.values_ndim = 0 \/ ind = 0 THEN "scalar"
        ELSE IF \E k \in 1..nd : a.points[k] # 1 THEN "points_not_1d"
        ELSE IF nd # a.values_ndim THEN "values_mismatch"
        ELSE IF ind # 2 THEN "interp_not_2d"
        ELSE IF nd # a.interp_shape[2] THEN "interp_mismatch"
        ELSE ""

\* --------------------------------------------------------- thread choice
\* DesiredThreads with the tier limits taken inclusively
DesiredThreadsInclusive(n) ==
    IF n <= Tier1 THEN 1
    ELSE IF n <= Tier2 THEN 2
    ELSE IF n <= Tier3 THEN 4
    ELSE 8

DesiredThreads(n) ==
    IF n < Tier1 THEN 1
    ELSE IF n < Tier2 THEN 2
    ELSE IF n < Tier3 THEN 4
    ELSE 8

\* NumThreads taking the larger of the two counts
NumThreadsMax(n, max_threads) ==
    LET t == IF DesiredThreads(n) > max_threads THEN DesiredThreads(n)
             ELSE max_threads
    IN  IF t = 0 THEN 1 ELSE t

NumThreads(n, max_threads) ==
    LET t == Min(DesiredThreads(n), max_threads)
    IN  IF t = 0 THEN 1 ELSE t

\* ChunkLen with every chunk running to the end of the batch
ChunkLenToEnd(index, strd, n) == n - index

\* the length argument of a launched task
ChunkLen(index, strd, n) ==
    IF index + strd < n THEN strd ELSE n - index

\* QueryOffset starting one query point too far
QueryOffsetOffByOne(index, dims) == (index + 1) * dims

\* the offset of the task's first query coordinate in interp_points_ptr
QueryOffset(index, dims) == index * dims

\* ---------------------------------------------------------------- states
CallStart(a) ==
    /\ args = a
    /\ pc = "validate"
    /\ error = NoError
    /\ num_dims = 0
    /\ num_elements = 0
    /\ num_threads = 0
    /\ stride = 0
    /\ buf = "none"
    /\ frees = 0
    /\ out = << >>
    /\ tasks = << >>
    /\ invoked = {}

Init ==
    /\ \E a \in ArgsChoices : CallStart(a)
    /\ prev = << >>

\* lines 24-53
Validate ==
    /\ pc = "validate"
    /\ num_dims' = Len(args.points)
    /\ LET e == ValidationError(args)
       IN  IF e # ""
           THEN /\ pc' = "raised"
                /\ error' = [kind |-> "type_error", message |-> e]
           ELSE /\ pc' = "allocate"
                /\ error' = error
    /\ UNCHANGED <<args, num_elements, num_threads, stride, buf, frees, out,
                   tasks, invoked, prev>>

\* lines 54-58
Allocate ==
    /\ pc = "allocate"
    /\ num_elements' = args.interp_shape[1]
    /\ buf' = "raw"
    /\ out' = [ p \in Probes(args.interp_shape[1]) |-> Uninit ]
    /\ pc' = "select_threads"
    /\ UNCHANGED <<args, error, num_dims, num_threads, stride, frees, tasks,
                   invoked, prev>>

\* lines 63-80
SelectThreads ==
    /\ pc = "select_threads"
    /\ num_threads' = NumThreads(num_elements, args.max_threads)
    /\ stride' = num_elements \div NumThreads(num_elements, args.max_threads)
    /\ pc' = "dispatch"
    /\ UNCHANGED <<args, error, num_dims, num_elements, buf, frees, out,
                   tasks, invoked, prev>>

\* RunSingle taken whatever the worker count
RunSingleAnyThreads ==
    /\ pc = "dispatch"
    /\ num_dims \in 1..3
    /\ invoked' = invoked \cup
          { Invocation(KernelName(num_dims), 0, 0, 0, num_elements,
                       NoSlice, NoSlice) }
    /\ LET done == KernelCompleted(0, num_elements, num_dims, args.bad_point)
       IN  /\ out' = KernelWrite(out, 0, 0, done, num_dims)
           /\ IF done = num_elements
              THEN pc' = "package" /\ error' = error
              ELSE pc' = "raised" /\ error' = [kind |-> "kernel_error", message |-> ""]
    /\ UNCHANGED <<args, num_dims, num_elements, num_threads, stride, buf,
                   frees, tasks, prev>>

\* lines 87-96, 125-135, 168-180: the kernel runs in the calling thread
RunSingle ==
    /\ pc = "dispatch"
    /\ num_dims \in 1..3
    /\ num_threads = 1
    /\ invoked' = invoked \cup
          { Invocation(KernelName(num_dims), 0, 0, 0, num_elements,
                       NoSlice, NoSlice) }
    /\ LET done == KernelCompleted(0, num_elements, num_dims, args.bad_point)
       IN  /\ out' = KernelWrite(out, 0, 0, done, num_dims)
           /\ IF done = num_elements
              THEN pc' = "package" /\ error' = error
              ELSE pc' = "raised" /\ error' = [kind |-> "kernel_error", message |-> ""]
    /\ UNCHANGED <<args, num_dims, num_elements, num_threads, stride, buf,
                   frees, tasks, prev>>

\* LaunchTask taken whatever the worker count
LaunchTaskAnyThreads ==
    /\ pc = "dispatch"
    /\ num_dims \in 1..3
    /\ Len(tasks) < num_threads
    /\ LET i == Len(tasks)
           index == i * stride
           len == ChunkLen(index, stride, num_elements)
           q_off == QueryOffset(index, num_dims)
       IN  \E policy \in LaunchPolicies :
             /\ tasks' = Append(tasks,
                   [ kernel |-> KernelName(num_dims),
                     out_off |-> index, q_off |-> q_off, len |-> len,
                     state |-> IF policy = "async" THEN "running"
                               ELSE "deferred" ])
             /\ invoked' =
                   IF policy = "async"
                   THEN invoked \cup
                          { Invocation(KernelName(num_dims), i + 1, index,
                                       q_off, len, NoSlice, NoSlice) }
                   ELSE invoked
    /\ UNCHANGED <<args, pc, error, num_dims, num_elements, num_threads,
                   stride, buf, frees, out, prev>>

\* lines 100-113, 139-154, 184-201: one iteration of the launch loop
LaunchTask ==
    /\ pc = "dispatch"
    /\ num_dims \in 1..3
    /\ num_threads # 1
    /\ Len(tasks) < num_threads
    /\ LET i == Len(tasks)
           index == i * stride
           len == ChunkLen(index, stride, num_elements)
           q_off == QueryOffset(index, num_dims)
       IN  \E policy \in LaunchPolicies :
             /\ tasks' = Append(tasks,
                   [ kernel |-> KernelName(num_dims),
                     out_off |-> index, q_off |-> q_off, len |-> len,
                     state |-> IF policy = "async" THEN "running"
                               ELSE "deferred" ])
             /\ invoked' =
                   IF policy = "async"
                   THEN invoked \cup
                          { Invocation(KernelName(num_dims), i + 1, index,
                                       q_off, len, NoSlice, NoSlice) }
                   ELSE invoked
    /\ UNCHANGED <<args, pc, error, num_dims, num_elements, num_threads,
                   stride, buf, frees, out, prev>>

\* a kernel running on a worker thread comes to its end
WorkerFinish ==
    \E k \in 1..Len(tasks) :
      /\ tasks[k].state = "running"
      /\ LET t == tasks[k]
             done == KernelCompleted(t.q_off, t.len, num_dims, args.bad_point)
         IN  /\ out' = KernelWrite(out, t.out_off, t.q_off, done, num_dims)
             /\ tasks' = [tasks EXCEPT ![k].state =
                             IF done = t.len THEN "done" ELSE "failed"]
      /\ UNCHANGED <<args, pc, error, num_dims, num_elements, num_threads,
                     stride, buf, frees, invoked, prev>>

\* lines 114-117, 155-158, 202-205: the std::move loop has no effect; at the
\* closing brace the futures are destroyed, which waits for every task that
\* runs on a thread and drops a deferred task without running it
JoinTasks ==
    /\ pc = "dispatch"
    /\ num_dims \in 1..3
    /\ num_threads # 1
    /\ Len(tasks) = num_threads
    /\ \A k \in 1..Len(tasks) : tasks[k].state # "running"
    /\ pc' = "package"
    /\ UNCHANGED <<args, error, num_dims, num_elements, num_threads, stride,
                   buf, frees, out, tasks, invoked, prev>>

\* lines 206-231
RunGeneric ==
    /\ pc = "dispatch"
    /\ num_dims \notin 1..3
    /\ invoked' = invoked \cup
          { Invocation(KernelName(num_dims), 0, 0, 0, num_elements,
                       ValuesSize(args) \div SizeofDouble,
                       ValuesSize(args) \div SizeofDouble) }
    /\ LET done == KernelCompleted(0, num_elements, num_dims, args.bad_point)
       IN  /\ out' = KernelWrite(out, 0, 0, done, num_dims)
           /\ IF done = num_elements
              THEN pc' = "package" /\ error' = error
              ELSE pc' = "raised" /\ error' = [kind |-> "kernel_error", message |-> ""]
    /\ UNCHANGED <<args, num_dims, num_elements, num_threads, stride, buf,
                   frees, tasks, prev>>

\* lines 234-245
Package ==
    /\ pc = "package"
    /\ buf' = "owned"
    /\ pc' = "returned"
    /\ UNCHANGED <<args, error, num_dims, num_elements, num_threads, stride,
                   frees, out, tasks, invoked, prev>>

\* lines 234-237: the caller drops the array, the capsule deletes the buffer
Release ==
    /\ pc = "returned"
    /\ buf = "owned"
    /\ buf' = "freed"
    /\ frees' = frees + 1
    /\ pc' = "released"
    /\ UNCHANGED <<args, error, num_dims, num_elements, num_threads, stride,
                   out, tasks, invoked, prev>>

Next ==
    \/ Validate
    \/ Allocate
    \/ SelectThreads
    \/ RunSingle
    \/ LaunchTask
    \/ WorkerFinish
    \/ JoinTasks
    \/ RunGeneric
    \/ Package
    \/ Release

Spec == Init /\ [][Next]_vars

\* ------------------------------------------------- two calls, same arrays
\* The caller keeps the returned array and calls again on the same axes,
\* values and query batch with another max_threads.
PairElements ==
    SmallElements \cup { t + e : t \in {Tier1, Tier2}, e \in (-1)..MaxExtra }

InitPair ==
    /\ \E a \in WellFormedArgs(PairElements) : CallStart(a)
    /\ prev = << >>

CallAgain ==
    /\ pc = "returned"
    /\ prev = << >>
    /\ prev' = [ max_threads |-> args.max_threads, out |-> out,
                  tasks |-> tasks ]
    /\ \E m \in MaxThreadsChoices \ {args.max_threads} :
          args' = [args EXCEPT !.max_threads = m]
    /\ pc' = "validate"
    /\ error' = NoError
    /\ num_dims' = 0
    /\ num_elements' = 0
    /\ num_threads' = 0
    /\ stride' = 0
    /\ buf' = "none"
    /\ frees' = 0
    /\ out' = << >>
    /\ tasks' = << >>
    /\ invoked' = {}

NextPair == Next \/ CallAgain

SpecPair == InitPair /\ [][NextPair]_vars

\* ================================================================ claims
Finished == pc \in {"package", "returned", "released"}

Returned == pc \in {"returned", "released"}

Parallel == num_dims \in 1..3 /\ num_threads > 1

AllLaunched == Parallel /\ Len(tasks) = num_threads

\* every task of ts ran on a thread and came to its end without failing
AllDone(ts) == \A k \in 1..Len(ts) : ts[k].state = "done"

RECURSIVE SumLen(_)
SumLen(ts) == IF ts = << >> THEN 0 ELSE Head(ts).len + SumLen(Tail(ts))

\* C1: in the parallel path every worker but the last is given stride
\* points, the last one num_elements - stride * (W - 1), and the chunk
\* lengths of the W workers sum to num_elements.
C1_ChunkLengths ==
    Parallel =>
      /\ \A k \in 1..Len(tasks) :
            tasks[k].len = IF k < num_threads THEN stride
                           ELSE num_elements - stride * (num_threads - 1)
      /\ AllLaunched => SumLen(tasks) = num_elements

\* C1, what the code does: every worker, the last included, is given
\* stride points, so num_elements % W points belong to no chunk.
C1_CodeChunkLengths ==
    Parallel =>
      /\ \A k \in 1..Len(tasks) : tasks[k].len = stride
      /\ AllLaunched =>
            SumLen(tasks) = num_elements - (num_elements % num_threads)

C1_Witness ==
    /\ AllLaunched
    /\ num_elements % num_threads # 0

\* C2: after a successful return (the array is returned and no task was
\* deferred or failed) every output index holds the value computed from the
\* query point of the same index (the num_dims coordinates at flat offset
\* i * num_dims).
C2_OrderPreserved ==
    (Returned /\ AllDone(tasks)) =>
       \A p \in DOMAIN out : out[p] = p * num_dims

\* C2 on the calls the chunking and the launch policy do not spoil: a
\* returned call leaves an index unwritten or written from its own point.
C2_WrittenFromOwnPoint ==
    Returned => \A p \in DOMAIN out : out[p] \in {Uninit, p * num_dims}

C2_Witness ==
    /\ Returned
    /\ Parallel
    /\ \E p \in DOMAIN out : out[p] = Uninit
    /\ AllDone(tasks)
    /\ num_threads = 4

\* C3: the output ranges of any two distinct workers are disjoint, in every
\* reachable state.
C3_DisjointChunks ==
    \A a, b \in 1..Len(tasks) :
       a # b =>
          \/ tasks[a].out_off + tasks[a].len <= tasks[b].out_off
          \/ tasks[b].out_off + tasks[b].len <= tasks[a].out_off

C3_Witness ==
    /\ Len(tasks) >= 2
    /\ tasks[1].state = "running"
    /\ tasks[2].state = "running"
    /\ tasks[1].len > 0
    /\ tasks[2].len > 0

\* C4: two calls on the same arrays that differ only in max_threads (two
\* values of {1, 2, 4, 8}), in neither of which a task was deferred or
\* failed, return identical buffers: the same indices are written and they
\* hold the same values.
C4_SameOutput ==
    ( /\ Returned
      /\ prev # << >>
      /\ {prev.max_threads, args.max_threads} \subseteq {1, 2, 4, 8}
      /\ AllDone(prev.tasks)
      /\ AllDone(tasks) )
    => out = prev.out

C4_Witness ==
    /\ Returned
    /\ prev # << >>
    /\ prev.max_threads = 1
    /\ args.max_threads = 4
    /\ AllDone(prev.tasks)
    /\ AllDone(tasks)
    /\ num_threads = 4
    /\ out # prev.out

\* C5: when the array is returned, every worker task that was created has
\* finished executing its chunk.
C5_JoinedBeforeReturn ==
    Returned => \A k \in 1..Len(tasks) : tasks[k].state \in {"done", "failed"}

\* C5 for the tasks that were given a thread: none of them is still running
\* when the array is returned.
C5_NoRunningAtReturn ==
    Finished => \A k \in 1..Len(tasks) : tasks[k].state # "running"

C5_Witness ==
    /\ Returned
    /\ \E k \in 1..Len(tasks) : tasks[k].state = "deferred"

\* C6: if a parallel worker fails, the call ends in an error after the
\* join and returns no buffer.
C6_FailurePropagates ==
    (Finished \/ pc = "raised") =>
       ( (\E k \in 1..Len(tasks) : tasks[k].state = "failed")
         => pc = "raised" /\ error.kind = "kernel_error" )

C6_Witness ==
    /\ Returned
    /\ error = NoError
    /\ \E k \in 1..Len(tasks) : tasks[k].state = "failed"

\* C7: a kernel is invoked, or a worker launched, only if all boundary
\* preconditions hold; otherwise the call ends with a type error before
\* any kernel invocation, worker launch or allocation.
Preconditions(a) ==
    /\ a.values_ndim # 0
    /\ Len(a.interp_shape) # 0
    /\ \A k \in 1..Len(a.points) : a.points[k] = 1
    /\ a.values_ndim = Len(a.points)
    /\ Len(a.interp_shape) = 2
    /\ a.interp_shape[2] = Len(a.points)

C7_KernelOnlyIfValid ==
    /\ (invoked # {} \/ tasks # << >>) => Preconditions(args)
    /\ (pc # "validate" /\ ~Preconditions(args)) =>
          /\ pc = "raised"
          /\ error.kind = "type_error"
          /\ invoked = {}
          /\ tasks = << >>
          /\ buf = "none"

C7_Witness ==
    /\ pc = "raised"
    /\ error.kind = "type_error"
    /\ Len(args.interp_shape) = 2
    /\ args.values_ndim = Len(args.points)
    /\ args.interp_shape[2] # Len(args.points)

\* C8: the effective worker count is max(1, min(desired, max_threads)),
\* desired being 1, 2, 4 or 8 by the size tier of num_elements.
TableDesired(n) ==
    CASE n >= Tier3 -> 8
      [] n >= Tier2 /\ n < Tier3 -> 4
      [] n >= Tier1 /\ n < Tier2 -> 2
      [] OTHER -> 1

ThreadsSelected ==
    \/ pc \in {"dispatch", "package", "returned", "released"}
    \/ pc = "raised" /\ error.kind = "kernel_error"

C8_EffectiveWorkers ==
    ThreadsSelected =>
       LET d == TableDesired(num_elements)
           m == IF d <= args.max_threads THEN d ELSE args.max_threads
       IN  /\ num_threads = (IF m >= 1 THEN m ELSE 1)
           /\ (args.max_threads = 0 => num_threads = 1)

C8_Witness ==
    /\ pc = "dispatch"
    /\ num_elements >= Tier1
    /\ args.max_threads = 0
    /\ num_threads = 1

\* C9: the buffer is never leaked: a call that fails has not allocated it,
\* a call that returns has handed it to the array, and the array's release
\* frees it exactly once.
C9_NoLeak ==
    /\ pc = "raised" => buf = "none"
    /\ pc = "returned" => buf = "owned" /\ frees = 0
    /\ pc = "released" => buf = "freed" /\ frees = 1

C9_Witness ==
    /\ pc = "raised"
    /\ error.kind = "kernel_error"
    /\ buf = "raw"

KernelsUsed ==
    { v.kernel : v \in invoked } \cup
    { tasks[k].kernel : k \in 1..Len(tasks) }

KindByDimension ==
    IF num_dims >= 4 THEN "interpolate"
    ELSE IF num_dims = 3 THEN "interpolate_3d"
    ELSE IF num_dims = 2 THEN "interpolate_2d"
    ELSE "interpolate_1d"

C11_KernelByDimension ==
    /\ KernelsUsed \subseteq {KindByDimension}
    /\ KernelsUsed # {} => num_dims >= 1
    /\ Finished => KernelsUsed = {KindByDimension}

C11_Witness ==
    /\ Finished
    /\ num_dims = 3
    /\ num_threads = 4
    /\ KernelsUsed = {"interpolate_3d"}

\* C12: with one effective worker and D in {1, 2, 3} no task is launched:
\* the kernel is invoked exactly once, in the calling thread, over the whole
\* query batch (offset 0, length num_elements) and the whole output buffer.
DispatchOver == Finished \/ (pc = "raised" /\ error.kind = "kernel_error")

C12_SingleWorkerDirect ==
    (ThreadsSelected /\ num_threads = 1 /\ num_dims \in 1..3) =>
       /\ tasks = << >>
       /\ \A v \in invoked :
             /\ v.worker = 0
             /\ v.out_off = 0
             /\ v.q_off = 0
             /\ v.len = num_elements
       /\ Cardinality(invoked) = (IF DispatchOver THEN 1 ELSE 0)
       /\ Finished => \A p \in DOMAIN out : out[p] # Uninit

C12_Witness ==
    /\ Finished
    /\ num_threads = 1
    /\ num_dims = 2
    /\ num_elements >= Tier1
    /\ tasks = << >>
    /\ Cardinality(invoked) = 1

\* C13: every worker's slices stay inside the buffers: worker i starts at
\* index = i * stride, its output slice [index, index + len) lies within
\* [0, num_elements), and its query slice [index * D, (index + len) * D)
\* lies within [0, num_elements * D).
C13_SlicesInBounds ==
    \A k \in 1..Len(tasks) :
       LET t == tasks[k]
       IN  /\ t.out_off = (k - 1) * stride
           /\ 0 <= t.out_off
           /\ 0 <= t.len
           /\ t.out_off + t.len <= num_elements
           /\ t.q_off = t.out_off * num_dims
           /\ 0 <= t.q_off
           /\ t.q_off + t.len * num_dims <= num_elements * num_dims

C13_Witness ==
    /\ AllLaunched
    /\ num_threads = 8
    /\ num_dims = 3
    /\ num_elements % num_threads # 0

\* C14: in the generic N-D path the slice lengths handed to the kernel
\* match the real buffers: the sample-tensor slice has the tensor's element
\* count, the query slice num_elements * D elements, the output slice
\* num_elements elements.
GenericInvocations == { v \in invoked : v.kernel = "interpolate" }

C14_GenericSliceLengths ==
    \A v \in GenericInvocations :
       /\ v.values_len = ValuesSize(args)
       /\ v.query_len = num_elements * num_dims
       /\ v.len = num_elements

\* C14, what the code does: both the tensor slice and the query slice are
\* given the tensor's element count divided by sizeof(double); only the
\* output slice has the length of its buffer.
C14_CodeSliceLengths ==
    \A v \in GenericInvocations :
       /\ v.values_len = ValuesSize(args) \div SizeofDouble
       /\ v.query_len = ValuesSize(args) \div SizeofDouble
       /\ v.len = num_elements

C14_Witness ==
    \E v \in GenericInvocations :
       /\ num_dims = 4
       /\ num_elements = 1
       /\ v.len = num_elements
       /\ v.values_len < ValuesSize(args)
       /\ v.query_len < num_elements * num_dims

\* C15 as stated: a call with an empty axis list ends in a type error
\* before any allocation or kernel run: the scalar-input error when values
\* is 0-dimensional, otherwise the grid/values dimension-mismatch error.
ZeroAxes == Len(args.points) = 0

RejectedEarly ==
    /\ invoked = {}
    /\ tasks = << >>
    /\ buf = "none"
    /\ pc \in {"validate", "raised"}
    /\ pc = "raised" => error.kind = "type_error"

C15_ZeroAxesByValuesRank ==
    ZeroAxes =>
       /\ RejectedEarly
       /\ pc = "raised" =>
             error.message = IF args.values_ndim = 0 THEN "scalar"
                             ELSE "values_mismatch"

\* C15 amended: the scalar-input error is raised when values or
\* interp_points is 0-dimensional, the grid/values dimension-mismatch error
\* otherwise.
C15_ZeroAxesRejected ==
    ZeroAxes =>
       /\ RejectedEarly
       /\ pc = "raised" =>
             error.message =
                IF args.values_ndim = 0 \/ Len(args.interp_shape) = 0
                THEN "scalar"
                ELSE "values_mismatch"

C15_Witness ==
    /\ ZeroAxes
    /\ pc = "raised"
    /\ args.values_ndim >= 1
    /\ Len(args.interp_shape) = 2
    /\ args.interp_shape[2] = 0
    /\ error.message = "values_mismatch"

\* C16: in every call 1 <= effective_workers <= 8; whenever more than one
\* worker is used, num_elements >= 10,000, max_threads >= 2 and
\* stride = num_elements div effective_workers >= 1, so every launched
\* worker is given a non-empty chunk.
C16_WorkerRange ==
    ThreadsSelected =>
       /\ 1 <= num_threads
       /\ num_threads <= 8
       /\ num_threads > 1 =>
             /\ num_elements >= Tier1
             /\ args.max_threads >= 2
             /\ stride * num_threads <= num_elements
             /\ stride >= 1
             /\ \A k \in 1..Len(tasks) : tasks[k].len >= 1

C16_Witness ==
    /\ AllLaunched
    /\ num_threads = 8
    /\ args.max_threads = 8
    /\ \A k \in 1..Len(tasks) : tasks[k].len >= 1

====
